---- MODULE Spec2Model ----
(***************************************************************************)
(* Model of the RAG agent service (src/agent/service.go): the HTTP handler *)
(* Service.ChatCompletion, the request pipeline Service.generateCompletion *)
(* with its run-once corpus build, and the signature check validPayload.   *)
(*                                                                         *)
(* Strings are sequences of characters (or of opaque chunks), so that      *)
(* string concatenation is \o and the empty string is << >>.              *)
(***************************************************************************)
EXTENDS Integers, Sequences, FiniteSets, TLC

\* ------------------------------------------------------------------ bounds
\* Number of concurrent requests in the concurrent specification.
NumReqs == 2
\* Longest conversation (number of messages) of the one-request specification.
MaxMsgs == 2
\* Most units (lines) the downstream stream delivers in the one-request specification.
MaxUnits == 2
\* Longest signature header (characters) of the signature specification.
MaxSigLen == 4

Reqs == 1..NumReqs

\* Sequences over S of length 0..n.
SeqsUpTo(S, n) == UNION {[1..k -> S] : k \in 0..n}

IsPrefix(p, s) == Len(p) <= Len(s) /\ SubSeq(s, 1, Len(p)) = p

\* --------------------------------------------------------- validPayload
\* The characters of a signature header: "S", "1", "2" are base64 characters,
\* "!" is outside the base64 alphabet.
SigChars == {"S", "1", "2", "!"}

\* The DER tag of a SEQUENCE.
SeqTag == 48

\* The value a base64 character decodes to.
B64Val(c) == CASE c = "S" -> SeqTag [] c = "1" -> 1 [] c = "2" -> 2 [] OTHER -> 0

\* base64.StdEncoding.DecodeString: an error on a character outside the alphabet.
B64Decode(sig) ==
    IF \E i \in 1..Len(sig) : sig[i] = "!"
    THEN [err |-> "base64", bytes |-> << >>]
    ELSE [err |-> "nil", bytes |-> [i \in 1..Len(sig) |-> B64Val(sig[i])]]

\* The values an encoded INTEGER can hold in this model.
IntBytes == {1, 2}

\* asn1.Unmarshal into asn1Signature{R, S}: a SEQUENCE of two INTEGERs, and the
\* bytes that follow it (rest).
Asn1Unmarshal(bytes) ==
    IF Len(bytes) >= 3 /\ bytes[1] = SeqTag /\ bytes[2] \in IntBytes /\ bytes[3] \in IntBytes
    THEN [err |-> "nil", R |-> bytes[2], S |-> bytes[3], rest |-> SubSeq(bytes, 4, Len(bytes))]
    ELSE [err |-> "asn1", R |-> 0, S |-> 0, rest |-> << >>]

\* The service's public key (Service.pubKey) and the S value its signer produces.
PubKey == 1

\* sha256.Sum256 of the raw body, reduced to the two digests of this model.
Digest(data) ==
    CASE data.kind = "garbage" -> 1
      [] data.kind = "null" -> 2
      [] data.kind = "array" -> 2
      [] OTHER -> 1 + (Len(data.messages) % 2)

\* ecdsa.Verify(publicKey, digest, R, S).
EcdsaVerify(key, digest, R, S) == R = digest /\ S = key

\* validPayload: returns (isValid, err).
validPayload(data, sig, publicKey) ==
    LET dec == B64Decode(sig)
        asn == Asn1Unmarshal(dec.bytes)
    IN  IF dec.err # "nil" THEN [valid |-> FALSE, err |-> dec.err]
        ELSE IF asn.err # "nil" \/ Len(asn.rest) # 0
             THEN [valid |-> FALSE, err |-> asn.err]
        ELSE [valid |-> EcdsaVerify(publicKey, Digest(data), asn.R, asn.S), err |-> "nil"]


\* ------------------------------------------------------------ data model
\* copilot.ChatMessage: a role and a content.
Roles == {"user", "assistant"}
Contents == {<< >>, <<"a">>, <<"b">>}
ChatMessage == [Role : Roles, Content : Contents]

\* The request bodies: not JSON at all ("garbage"), JSON of another shape
\* ("array"), the JSON value null, and an object holding messages.
ObjectBody(msgs) == [kind |-> "object", messages |-> msgs]
OtherBodies == {[kind |-> k, messages |-> << >>] : k \in {"garbage", "array", "null"}}
BodiesUpTo(n) == OtherBodies \cup {ObjectBody(m) : m \in SeqsUpTo(ChatMessage, n)}

\* json.Unmarshal(body, &req) with req a *copilot.ChatRequest: an error for
\* what is not JSON or does not have the shape, a nil pointer for null.
Unmarshal(body) ==
    CASE body.kind \in {"garbage", "array"} -> [err |-> "json", isNil |-> TRUE, Messages |-> << >>]
      [] body.kind = "null" -> [err |-> "nil", isNil |-> TRUE, Messages |-> << >>]
      [] OTHER -> [err |-> "nil", isNil |-> FALSE, Messages |-> body.messages]

\* The signature header GitHub's signer produces for a body.
SignatureOf(body) == <<"S", IF Digest(body) = 1 THEN "1" ELSE "2", "1">>

\* The listings os.ReadDir("data") can return.
DirListings == {<< >>, <<"f1">>, <<"f1", "f2">>}

\* filepath.Join("data", name).
JoinData(name) == <<"data", name>>

\* The embedding vectors the embedding service returns for a chat message.
Vectors == {<<1, 0>>, <<0, 1>>, <<1>>}

\* The vector the embedding service returns for a document of the corpus.
DocEmbedding(filename) == IF filename = JoinData("f1") THEN <<1, 0>> ELSE <<0, 1>>

\* What io.ReadAll reads from a document.
FileContents(filename) == <<"contents of", filename[2]>>

\* embedding.GenerateDatasets on success: one Dataset per filename, in order.
GenerateDatasets(filenames) ==
    [k \in 1..Len(filenames) |->
        [Filename |-> filenames[k], Embedding |-> DocEmbedding(filenames[k])]]

RECURSIVE Dot(_, _)
Dot(a, b) == IF a = << >> THEN 0 ELSE a[1] * b[1] + Dot(Tail(a), Tail(b))

\* embedding.FindBestDataset: none for an empty corpus, an error when the
\* dimensions differ, else the first dataset of the highest score.
FindBestDataset(datasets, emb) ==
    IF datasets = << >> THEN [err |-> "nil", found |-> FALSE, k |-> 0]
    ELSE IF \E k \in 1..Len(datasets) : Len(datasets[k].Embedding) # Len(emb)
    THEN [err |-> "dimension", found |-> FALSE, k |-> 0]
    ELSE [err |-> "nil", found |-> TRUE,
          k |-> CHOOSE k \in 1..Len(datasets) :
                  /\ \A j \in 1..Len(datasets) :
                        Dot(datasets[j].Embedding, emb) <= Dot(datasets[k].Embedding, emb)
                  /\ \A j \in 1..(k - 1) :
                        Dot(datasets[j].Embedding, emb) < Dot(datasets[k].Embedding, emb)]

\* lPrePrompt and the "Context: " label that follow it in the injected message.
lPrePrompt == <<"You are a senior Dynamics 365 ... context when responding to a message.\n">>
ContextLabel == <<"Context: ">>

\* The synthesized system message.
SystemMessage(fileContents) ==
    [Role |-> "system", Content |-> lPrePrompt \o ContextLabel \o fileContents]

\* The units (lines) bufio.Scanner can deliver: none of them holds a newline.
Units == {<< >>, <<"x">>, <<"y", "z">>}
Delimiter == <<"\n">>


\* ------------------------------------------------------------------ state
VARIABLES
    q,          \* q[r]: the handler's locals, response and history for request r
    once,       \* Service.datasetsInit: "fresh", "running" (f is executing), "done"
    datasets,   \* Service.datasets
    openFiles,  \* document handles opened by os.Open and not closed
    builds,     \* history: executions of the function passed to datasetsInit.Do
    dsWrites,   \* history: assignments to Service.datasets
    buildResult \* history: "none", "ok" or "failed", the outcome of the build

vars == <<q, once, datasets, openFiles, builds, dsWrites, buildResult>>

shared == <<once, datasets, openFiles, builds, dsWrites, buildResult>>

NoBody == [kind |-> "unread", messages |-> << >>]

\* A request before ChatCompletion has run a step for it.
InitReq ==
    [pc |-> "start", sig |-> << >>, body |-> NoBody,
     isValid |-> FALSE, verr |-> "nil",
     reqNil |-> TRUE, reqMessages |-> << >>,
     err |-> "nil", filenames |-> << >>,
     i |-> 0, messages |-> << >>, emb |-> << >>, dataset |-> << >>,
     fileContents |-> << >>,
     stream |-> "none", closes |-> 0, rd |-> << >>, buf |-> << >>,
     status |-> 0, out |-> << >>, result |-> "none",
     log |-> << >>, embedIn |-> << >>,
     fwd |-> [sent |-> FALSE, Messages |-> << >>]]

Init ==
    /\ q = [r \in Reqs |-> InitReq]
    /\ once = "fresh"
    /\ datasets = << >>
    /\ openFiles = 0
    /\ builds = 0
    /\ dsWrites = 0
    /\ buildResult = "none"

\* The request's locals after one more logged operation.
Logged(rec, op) == [rec EXCEPT !.log = Append(@, op)]

\* http.ResponseWriter.WriteHeader: the first status sent is the one that counts.
WriteHeader(rec, code) == IF rec.status = 0 THEN [rec EXCEPT !.status = code] ELSE rec

\* http.ResponseWriter.Write of bytes that reach the caller: the header goes
\* out with status 200 unless one was written before.
Write(rec, bytes) == [WriteHeader(rec, 200) EXCEPT !.out = @ \o bytes]

\* The deferred stream.Close() of generateCompletion.
CloseStream(rec) ==
    IF rec.stream = "open"
    THEN [rec EXCEPT !.stream = "closed", !.closes = @ + 1]
    ELSE rec

\* An error return without the deferred stream.Close().
ReturnErrNoClose(rec, e) ==
    [WriteHeader(rec, 500) EXCEPT !.err = e, !.pc = "done", !.result = "internal"]

\* generateCompletion returns a non-nil error: the deferred close runs and
\* ChatCompletion writes status 500.
ReturnErr(rec, e) ==
    [WriteHeader(CloseStream(rec), 500) EXCEPT !.err = e, !.pc = "done", !.result = "internal"]

\* generateCompletion returns nil: the deferred close runs, the handler returns
\* and the server sends the header if none was written.
ReturnNil(rec) ==
    [WriteHeader(CloseStream(rec), 200) EXCEPT !.pc = "done", !.result = "ok"]

Set(r, rec) == q' = [q EXCEPT ![r] = rec]

\* ------------------------------------------------------- ChatCompletion
\* Lines 42-49: the signature header and io.ReadAll(r.Body).
Receive(r, sigs, bodies) ==
    /\ q[r].pc = "start"
    /\ \/ Set(r, [WriteHeader(Logged(q[r], "readBodyFail"), 500)
                    EXCEPT !.pc = "done", !.result = "internal"])
       \/ \E s \in sigs, b \in bodies :
            Set(r, [q[r] EXCEPT !.sig = s, !.body = b, !.pc = "verify"])
    /\ UNCHANGED shared

\* A verification that rejects on an error only, not on isValid = false.
VerifyNoValidCheck(r) ==
    /\ q[r].pc = "verify"
    /\ LET res == validPayload(q[r].body, q[r].sig, PubKey)
           rec == [Logged(q[r], "verify") EXCEPT !.isValid = res.valid, !.verr = res.err]
       IN  IF res.err # "nil"
           THEN Set(r, [WriteHeader(rec, 500) EXCEPT !.pc = "done", !.result = "sigerror"])
           ELSE Set(r, [rec EXCEPT !.pc = "parse"])
    /\ UNCHANGED shared

\* Lines 53-62: validPayload and the two rejections.
Verify(r) ==
    /\ q[r].pc = "verify"
    /\ LET res == validPayload(q[r].body, q[r].sig, PubKey)
           rec == [Logged(q[r], "verify") EXCEPT !.isValid = res.valid, !.verr = res.err]
       IN  IF res.err # "nil"
           THEN Set(r, [WriteHeader(rec, 500) EXCEPT !.pc = "done", !.result = "sigerror"])
           ELSE IF ~res.valid
           THEN Set(r, [Write(WriteHeader(rec, 401), <<"invalid payload signature", "\n">>)
                          EXCEPT !.pc = "done", !.result = "unauthorized"])
           ELSE Set(r, [rec EXCEPT !.pc = "parse"])
    /\ UNCHANGED shared

\* A parse whose error is not checked.
ParseIgnoreErr(r) ==
    /\ q[r].pc = "parse"
    /\ LET u == Unmarshal(q[r].body)
       IN  Set(r, [Logged(q[r], "parse") EXCEPT !.reqNil = u.isNil,
                                               !.reqMessages = u.Messages, !.pc = "once"])
    /\ UNCHANGED shared

\* Lines 64-72: json.Unmarshal of the body.
Parse(r) ==
    /\ q[r].pc = "parse"
    /\ LET u == Unmarshal(q[r].body)
           rec == Logged(q[r], "parse")
       IN  IF u.err # "nil"
           THEN Set(r, [WriteHeader(rec, 400) EXCEPT !.pc = "done", !.result = "badrequest"])
           ELSE Set(r, [rec EXCEPT !.reqNil = u.isNil, !.reqMessages = u.Messages,
                                   !.pc = "once"])
    /\ UNCHANGED shared


\* --------------------------------------------------- generateCompletion
\* A datasetsInit.Do that runs f without taking the gate.
OnceDoUnguarded(r) ==
    /\ q[r].pc = "once"
    /\ IF once # "done"
       THEN /\ once' = "running"
            /\ builds' = builds + 1
            /\ Set(r, [Logged(q[r], "ensure") EXCEPT !.pc = "readdir"])
       ELSE /\ Set(r, [Logged(q[r], "ensure") EXCEPT !.pc = "errcheck"])
            /\ UNCHANGED <<once, builds>>
    /\ UNCHANGED <<datasets, openFiles, dsWrites, buildResult>>

\* A datasetsInit.Do whose late callers do not wait for f to return.
OnceDoNoWait(r) ==
    /\ q[r].pc = "once"
    /\ IF once = "fresh"
       THEN /\ once' = "running"
            /\ builds' = builds + 1
            /\ Set(r, [Logged(q[r], "ensure") EXCEPT !.pc = "readdir"])
       ELSE /\ Set(r, [Logged(q[r], "ensure") EXCEPT !.pc = "errcheck"])
            /\ UNCHANGED <<once, builds>>
    /\ UNCHANGED <<datasets, openFiles, dsWrites, buildResult>>

\* Line 83: s.datasetsInit.Do(f). The first caller runs f; a caller that
\* arrives while f runs blocks until it has returned; a caller that arrives
\* after returns at once, without running f.
OnceDo(r) ==
    /\ q[r].pc = "once"
    /\ once # "running"
    /\ IF once = "fresh"
       THEN /\ once' = "running"
            /\ builds' = builds + 1
            /\ Set(r, [Logged(q[r], "ensure") EXCEPT !.pc = "readdir"])
       ELSE /\ Set(r, [Logged(q[r], "ensure") EXCEPT !.pc = "errcheck"])
            /\ UNCHANGED <<once, builds>>
    /\ UNCHANGED <<datasets, openFiles, dsWrites, buildResult>>

\* A build that returns on a failed os.ReadDir without releasing the gate.
BuildReadDirKeepsGate(r) ==
    /\ q[r].pc = "readdir"
    /\ \/ /\ Set(r, [Logged(q[r], "readdirFail") EXCEPT !.err = "readdir", !.pc = "errcheck"])
          /\ buildResult' = "failed"
       \/ /\ \E files \in DirListings :
                Set(r, [Logged(q[r], "readdir") EXCEPT
                          !.filenames = [k \in 1..Len(files) |-> JoinData(files[k])],
                          !.pc = "generate"])
          /\ UNCHANGED buildResult
    /\ UNCHANGED <<once, datasets, openFiles, builds, dsWrites>>

\* Lines 84-94, inside f: os.ReadDir("data") and the filenames.
BuildReadDir(r) ==
    /\ q[r].pc = "readdir"
    /\ \/ /\ Set(r, [Logged(q[r], "readdirFail") EXCEPT !.err = "readdir", !.pc = "errcheck"])
          /\ once' = "done"
          /\ buildResult' = "failed"
       \/ /\ \E files \in DirListings :
                Set(r, [Logged(q[r], "readdir") EXCEPT
                          !.filenames = [k \in 1..Len(files) |-> JoinData(files[k])],
                          !.pc = "generate"])
          /\ UNCHANGED <<once, buildResult>>
    /\ UNCHANGED <<datasets, openFiles, builds, dsWrites>>

\* A build that keeps the gate after the datasets are generated.
BuildGenerateKeepsGate(r) ==
    /\ q[r].pc = "generate"
    /\ \/ /\ datasets' = << >>
          /\ Set(r, [Logged(q[r], "generateFail") EXCEPT !.err = "generate", !.pc = "errcheck"])
          /\ buildResult' = "failed"
       \/ /\ datasets' = GenerateDatasets(q[r].filenames)
          /\ Set(r, [Logged(q[r], "generate") EXCEPT !.pc = "errcheck"])
          /\ buildResult' = "ok"
    /\ dsWrites' = dsWrites + 1
    /\ UNCHANGED <<once, openFiles, builds>>

\* Lines 96-100, inside f: s.datasets, err = embedding.GenerateDatasets(...).
BuildGenerate(r) ==
    /\ q[r].pc = "generate"
    /\ \/ /\ datasets' = << >>
          /\ Set(r, [Logged(q[r], "generateFail") EXCEPT !.err = "generate", !.pc = "errcheck"])
          /\ buildResult' = "failed"
       \/ /\ datasets' = GenerateDatasets(q[r].filenames)
          /\ Set(r, [Logged(q[r], "generate") EXCEPT !.pc = "errcheck"])
          /\ buildResult' = "ok"
    /\ dsWrites' = dsWrites + 1
    /\ once' = "done"
    /\ UNCHANGED <<openFiles, builds>>

\* A check after Do that does not return the build's error.
ErrCheckIgnoreErr(r) ==
    /\ q[r].pc = "errcheck"
    /\ IF q[r].reqNil
       THEN Set(r, [Logged(q[r], "panic") EXCEPT !.pc = "done", !.result = "panic"])
       ELSE Set(r, [q[r] EXCEPT !.i = Len(q[r].reqMessages), !.pc = "loop"])
    /\ UNCHANGED shared

\* Lines 102-109: the check of err after Do, and the start of the scan of
\* req.Messages, which dereferences req.
ErrCheck(r) ==
    /\ q[r].pc = "errcheck"
    /\ IF q[r].err # "nil"
       THEN Set(r, ReturnErr(q[r], q[r].err))
       ELSE IF q[r].reqNil
       THEN Set(r, [Logged(q[r], "panic") EXCEPT !.pc = "done", !.result = "panic"])
       ELSE Set(r, [q[r] EXCEPT !.i = Len(q[r].reqMessages), !.pc = "loop"])
    /\ UNCHANGED shared

\* A scan that takes every user message, empty or not.
LoopNoEmptyFilter(r) ==
    /\ q[r].pc = "loop"
    /\ IF q[r].i = 0
       THEN Set(r, [q[r] EXCEPT !.pc = "forward"])
       ELSE IF q[r].reqMessages[q[r].i].Role # "user"
            THEN Set(r, [q[r] EXCEPT !.i = @ - 1])
            ELSE Set(r, [q[r] EXCEPT !.pc = "embed"])
    /\ UNCHANGED shared

\* Lines 109-118: one iteration of the scan from the last message to the first.
Loop(r) ==
    /\ q[r].pc = "loop"
    /\ IF q[r].i = 0
       THEN Set(r, [q[r] EXCEPT !.pc = "forward"])
       ELSE LET msg == q[r].reqMessages[q[r].i]
            IN  IF msg.Role # "user" \/ msg.Content = << >>
                THEN Set(r, [q[r] EXCEPT !.i = @ - 1])
                ELSE Set(r, [q[r] EXCEPT !.pc = "embed"])
    /\ UNCHANGED shared

\* Lines 120-123: embedding.Create for msg.Content.
Embed(r, vectors) ==
    /\ q[r].pc = "embed"
    /\ LET rec == [Logged(q[r], "embed") EXCEPT
                     !.embedIn = Append(@, q[r].reqMessages[q[r].i].Content)]
       IN  \/ Set(r, ReturnErr(rec, "embedding"))
           \/ \E v \in vectors : Set(r, [rec EXCEPT !.emb = v, !.pc = "select"])
    /\ UNCHANGED shared

\* A selection whose "none" answer is taken for a dataset.
SelectNoNilCheck(r) ==
    /\ q[r].pc = "select"
    /\ LET best == FindBestDataset(datasets, q[r].emb)
           rec == Logged(q[r], "select")
       IN  IF best.err # "nil"
           THEN Set(r, ReturnErr(rec, "best dataset"))
           ELSE Set(r, [rec EXCEPT !.dataset = IF best.found THEN datasets[best.k].Filename
                                                 ELSE JoinData("f1"),
                                   !.pc = "open"])
    /\ UNCHANGED shared

\* A selection whose error is taken for "none".
SelectErrAsNone(r) ==
    /\ q[r].pc = "select"
    /\ LET best == FindBestDataset(datasets, q[r].emb)
           rec == Logged(q[r], "select")
       IN  IF ~best.found
           THEN Set(r, [rec EXCEPT !.pc = "forward"])
           ELSE Set(r, [rec EXCEPT !.dataset = datasets[best.k].Filename, !.pc = "open"])
    /\ UNCHANGED shared

\* Lines 126-133: embedding.FindBestDataset over s.datasets.
Select(r) ==
    /\ q[r].pc = "select"
    /\ LET best == FindBestDataset(datasets, q[r].emb)
           rec == Logged(q[r], "select")
       IN  IF best.err # "nil"
           THEN Set(r, ReturnErr(rec, "best dataset"))
           ELSE IF ~best.found
           THEN Set(r, [rec EXCEPT !.pc = "forward"])
           ELSE Set(r, [rec EXCEPT !.dataset = datasets[best.k].Filename, !.pc = "open"])
    /\ UNCHANGED shared

\* Lines 137-140: os.Open(dataset.Filename).
Open(r) ==
    /\ q[r].pc = "open"
    /\ \/ /\ Set(r, ReturnErr(Logged(q[r], "openFail"), "open"))
          /\ UNCHANGED openFiles
       \/ /\ Set(r, [Logged(q[r], "open") EXCEPT !.pc = "readfile"])
          /\ openFiles' = openFiles + 1
    /\ UNCHANGED <<once, datasets, builds, dsWrites, buildResult>>

\* Lines 142-176: io.ReadAll(file) and the synthesized system message.
ReadFile(r) ==
    /\ q[r].pc = "readfile"
    /\ \/ Set(r, ReturnErr(Logged(q[r], "readFileFail"), "read"))
       \/ LET fileContents == FileContents(q[r].dataset)
          IN  Set(r, [Logged(q[r], "readFile") EXCEPT
                        !.fileContents = fileContents,
                        !.messages = Append(@, SystemMessage(fileContents)),
                        !.pc = "forward"])
    /\ UNCHANGED shared


\* A forward that puts the synthesized message after the conversation.
ForwardContextLast(r) ==
    /\ q[r].pc = "forward"
    /\ LET messages == q[r].reqMessages \o q[r].messages
           rec == [Logged(q[r], "complete") EXCEPT
                     !.messages = messages,
                     !.fwd = [sent |-> TRUE, Messages |-> messages]]
       IN  \/ Set(r, ReturnErr(rec, "completions"))
           \/ Set(r, [rec EXCEPT !.stream = "open", !.pc = "scan"])
    /\ UNCHANGED shared

\* Lines 179-191: messages = append(messages, req.Messages...) and the call
\* of copilot.ChatCompletions with them.
Forward(r) ==
    /\ q[r].pc = "forward"
    /\ LET messages == q[r].messages \o q[r].reqMessages
           rec == [Logged(q[r], "complete") EXCEPT
                     !.messages = messages,
                     !.fwd = [sent |-> TRUE, Messages |-> messages]]
       IN  \/ Set(r, ReturnErr(rec, "completions"))
           \/ Set(r, [rec EXCEPT !.stream = "open", !.pc = "scan"])
    /\ UNCHANGED shared

\* Lines 194 and 206-214: reader.Scan() delivers the next unit, or ends the
\* loop at the end of the stream (reader.Err() is nil) or on a read error.
Scan(r, units, maxUnits) ==
    /\ q[r].pc = "scan"
    /\ LET rec == Logged(q[r], "scan")
       IN  \/ /\ Len(q[r].rd) < maxUnits
              /\ \E u \in units :
                    Set(r, [rec EXCEPT !.rd = Append(@, u), !.buf = u, !.pc = "write"])
           \/ Set(r, ReturnNil(rec))
           \/ Set(r, ReturnErr(rec, "stream read"))
    /\ UNCHANGED shared

\* A unit write whose failure is ignored.
WriteUnitIgnoreErr(r) ==
    /\ q[r].pc = "write"
    /\ LET rec == Logged(q[r], "write")
       IN  \/ Set(r, [Write(rec, q[r].buf) EXCEPT !.pc = "delim"])
           \/ \E n \in 0..(Len(q[r].buf) - 1) :
                Set(r, [Write(Logged(q[r], "writeFail"), SubSeq(q[r].buf, 1, n))
                          EXCEPT !.pc = "delim"])
           \/ /\ q[r].buf = << >>
              /\ Set(r, [Write(Logged(q[r], "writeFail"), << >>) EXCEPT !.pc = "delim"])
    /\ UNCHANGED shared

\* Lines 195-199: w.Write(buf). A failed write may have sent part of buf.
WriteUnit(r) ==
    /\ q[r].pc = "write"
    /\ \/ Set(r, [Write(Logged(q[r], "write"), q[r].buf) EXCEPT !.pc = "delim"])
       \/ \E n \in 0..(Len(q[r].buf) - 1) :
            Set(r, ReturnErr(Write(Logged(q[r], "writeFail"), SubSeq(q[r].buf, 1, n)),
                             "stream write"))
       \/ /\ q[r].buf = << >>
          /\ Set(r, ReturnErr(Write(Logged(q[r], "writeFail"), << >>), "stream write"))
    /\ UNCHANGED shared

\* A loop that writes no delimiter.
WriteDelimSkipped(r) ==
    /\ q[r].pc = "delim"
    /\ Set(r, [q[r] EXCEPT !.pc = "scan"])
    /\ UNCHANGED shared

\* Lines 201-203: w.Write([]byte("\n")).
WriteDelim(r) ==
    /\ q[r].pc = "delim"
    /\ \/ Set(r, [Write(Logged(q[r], "write"), Delimiter) EXCEPT !.pc = "scan"])
       \/ Set(r, ReturnErr(Write(Logged(q[r], "writeFail"), << >>), "delimiter write"))
    /\ UNCHANGED shared

\* One step of the handler for request r, its inputs drawn from the given sets.
Step(r, sigs, bodies, vectors, units, maxUnits) ==
    \/ Receive(r, sigs, bodies)
    \/ Verify(r)
    \/ Parse(r)
    \/ OnceDo(r)
    \/ BuildReadDir(r)
    \/ BuildGenerate(r)
    \/ ErrCheck(r)
    \/ Loop(r)
    \/ Embed(r, vectors)
    \/ Select(r)
    \/ Open(r)
    \/ ReadFile(r)
    \/ Forward(r)
    \/ Scan(r, units, maxUnits)
    \/ WriteUnit(r)
    \/ WriteDelim(r)

\* ------------------------------------------------------- specifications
\* The signatures that stand for each outcome of validPayload: the signer's,
\* one for the other digest, one with trailing bytes, one that is not a
\* structure, one that is not base64.
SomeSigs == {<<"S", "1", "1">>, <<"S", "2", "1">>, <<"S", "1", "1", "1">>, <<"1", "1">>, <<"!">>}

\* Three bodies: one that is not JSON, null, and a conversation of one user message.
SmallBodies ==
    {[kind |-> "garbage", messages |-> << >>], [kind |-> "null", messages |-> << >>],
     ObjectBody(<<[Role |-> "user", Content |-> <<"a">>]>>)}

\* Three signatures: the signer's for a body of either digest, and one that is
\* not base64.
FewSigs == {<<"S", "1", "1">>, <<"S", "2", "1">>, <<"!">>}

\* Concurrent requests, each with a short conversation and a short stream.

Next == \E r \in Reqs : Step(r, FewSigs, SmallBodies, {<<1, 0>>, <<1>>}, {<<"x">>}, 1)

Spec == Init /\ [][Next]_vars

\* One request, with every conversation of up to MaxMsgs messages and every
\* stream of up to MaxUnits units.
NextOne == Step(1, SomeSigs, BodiesUpTo(MaxMsgs), Vectors, Units, MaxUnits)

SpecOne == Init /\ [][NextOne]_vars

\* One request, with every signature header of up to MaxSigLen characters.
NextSig == Step(1, SeqsUpTo(SigChars, MaxSigLen), SmallBodies, {<<1, 0>>, <<1>>}, {<<"x">>}, 1)

SpecSig == Init /\ [][NextSig]_vars


\* ----------------------------------------------------------------- claims
Has(log, op) == \E k \in 1..Len(log) : log[k] = op

\* A signature header that decodes to exactly one structure whose (R, S)
\* verifies for the body under the service's key.
SignaturePasses(sig, body) ==
    LET dec == B64Decode(sig)
        asn == Asn1Unmarshal(dec.bytes)
    IN  /\ dec.err = "nil"
        /\ asn.err = "nil"
        /\ asn.rest = << >>
        /\ EcdsaVerify(PubKey, Digest(body), asn.R, asn.S)

\* The operations of a request that come after signature verification.
LaterOps == {"parse", "ensure", "readdir", "readdirFail", "generate", "generateFail",
             "embed", "select", "open", "openFail", "readFile", "readFileFail",
             "complete", "scan", "write", "writeFail", "panic"}

\* C1: a request whose signature is malformed or does not verify never gets
\* past verification, whatever the other requests do: its operations are at
\* most the verification, it makes no embedding or completion call, parses
\* nothing, starts no corpus build, and it ends rejected.
C1_InvalidSignatureDoesNothing ==
    \A r \in Reqs :
        (q[r].body # NoBody /\ ~SignaturePasses(q[r].sig, q[r].body)) =>
            /\ \A k \in 1..Len(q[r].log) : q[r].log[k] \notin LaterOps
            /\ q[r].embedIn = << >>
            /\ ~q[r].fwd.sent
            /\ q[r].pc \in {"verify", "done"}
            /\ q[r].pc = "done" => q[r].result \in {"unauthorized", "sigerror"}

\* A request has been rejected for its signature while another request is
\* running the corpus build.
C1_Witness ==
    \E r, o \in Reqs :
        /\ q[r].pc = "done"
        /\ q[r].result \in {"unauthorized", "sigerror"}
        /\ q[o].pc = "generate"

\* C2: however many requests reach the ensure-step and however they
\* interleave, the build function runs at most once and Service.datasets is
\* assigned at most once.
C2_BuildAtMostOnce ==
    /\ builds <= 1
    /\ dsWrites <= 1
    /\ dsWrites = 0 => datasets = << >>
    /\ once = "fresh" => builds = 0

\* Every request has passed the ensure-step, after one build and one write.
C2_Witness ==
    /\ \A r \in Reqs : Has(q[r].log, "ensure")
    /\ builds = 1
    /\ dsWrites = 1

\* C3 (as claimed): after a failed build, every request that has a
\* conversation and has passed the ensure-step ends with an internal failure,
\* and none goes on to scan its messages, retrieve or forward.
C3_FailureSeenByAll ==
    \A r \in Reqs :
        (buildResult = "failed" /\ Has(q[r].log, "ensure") /\ ~q[r].reqNil) =>
            /\ q[r].pc \in {"readdir", "generate", "errcheck", "done"}
            /\ q[r].pc = "done" => q[r].result = "internal"
            /\ ~q[r].fwd.sent

\* C4 (as claimed): validPayload returns an error for a signature that is not
\* base64, is not the structure, or has bytes after the structure, and
\* (false, nil) only for a well-formed signature that does not match.
C4_DecodeFailuresAreErrors ==
    \A r \in Reqs :
        Has(q[r].log, "verify") =>
            LET dec == B64Decode(q[r].sig)
                asn == Asn1Unmarshal(dec.bytes)
                undecodable == dec.err # "nil" \/ asn.err # "nil" \/ asn.rest # << >>
            IN  /\ undecodable => q[r].verr # "nil"
                /\ (~q[r].isValid /\ q[r].verr = "nil") =>
                       (~undecodable /\ ~SignaturePasses(q[r].sig, q[r].body))

\* C5 (as claimed): a request whose signature is malformed or does not match
\* ends with status 401.
C5_RejectedIsUnauthorized ==
    \A r \in Reqs :
        (Has(q[r].log, "verify") /\ ~SignaturePasses(q[r].sig, q[r].body)) =>
            (q[r].pc = "done" /\ q[r].status = 401)


\* Whether message k of a conversation has role "user" and non-empty content.
Qualifies(msgs, k) == msgs[k].Role = "user" /\ msgs[k].Content # << >>

\* The index of the last qualifying message of a conversation, 0 for none.
LastUser(msgs) ==
    IF \E k \in 1..Len(msgs) : Qualifies(msgs, k)
    THEN CHOOSE k \in 1..Len(msgs) :
            Qualifies(msgs, k) /\ \A j \in (k + 1)..Len(msgs) : ~Qualifies(msgs, j)
    ELSE 0

\* C6: a request calls the embedding function at most once, and then with the
\* content of the last message of its conversation that has role "user" and
\* non-empty content.
C6_EmbedsLastUserMessageOnce ==
    \A r \in Reqs :
        /\ Len(q[r].embedIn) <= 1
        /\ Len(q[r].embedIn) = 1 =>
              /\ LastUser(q[r].reqMessages) > 0
              /\ q[r].embedIn[1] = q[r].reqMessages[LastUser(q[r].reqMessages)].Content

\* The embedding was made for a message that is not the last of the
\* conversation: the scan has skipped a later message.
C6_Witness ==
    \E r \in Reqs :
        /\ Len(q[r].embedIn) = 1
        /\ LastUser(q[r].reqMessages) < Len(q[r].reqMessages)
        /\ q[r].fwd.sent

\* C7: what is forwarded to the completion service is the original
\* conversation, or the original conversation after one message of role
\* "system" whose content is the preamble followed by the content of the
\* dataset the selector chose.
C7_ForwardedIsConversationWithOnePrefix ==
    \A r \in Reqs :
        q[r].fwd.sent =>
            \/ q[r].fwd.Messages = q[r].reqMessages
            \/ /\ Len(q[r].fwd.Messages) = Len(q[r].reqMessages) + 1
               /\ Tail(q[r].fwd.Messages) = q[r].reqMessages
               /\ q[r].fwd.Messages[1].Role = "system"
               /\ LET best == FindBestDataset(datasets, q[r].emb)
                  IN  /\ best.found
                      /\ q[r].fwd.Messages[1].Content =
                            lPrePrompt \o ContextLabel \o FileContents(datasets[best.k].Filename)

\* A conversation of two messages was forwarded behind an injected message
\* built from the second dataset of the corpus.
C7_Witness ==
    \E r \in Reqs :
        /\ q[r].fwd.sent
        /\ Len(q[r].reqMessages) = 2
        /\ Len(q[r].fwd.Messages) = 3
        /\ q[r].dataset = JoinData("f2")

\* C8: with no message of role "user" and non-empty content the request makes
\* no embedding call and no selector call and forwards the conversation as it
\* is; and when the selector returns none the conversation is forwarded as it is.
C8_NoRetrievalForwardsUnchanged ==
    \A r \in Reqs :
        /\ (~q[r].reqNil /\ LastUser(q[r].reqMessages) = 0) =>
              /\ q[r].embedIn = << >>
              /\ ~Has(q[r].log, "select")
              /\ ~Has(q[r].log, "open")
              /\ q[r].fwd.sent => q[r].fwd.Messages = q[r].reqMessages
        /\ (Has(q[r].log, "select") /\ q[r].fwd.sent
              /\ ~FindBestDataset(datasets, q[r].emb).found) =>
              /\ q[r].fwd.Messages = q[r].reqMessages
              /\ ~Has(q[r].log, "open")

\* The selector was called, returned none, and the conversation was forwarded.
C8_Witness ==
    \E r \in Reqs :
        /\ Has(q[r].log, "select")
        /\ ~FindBestDataset(datasets, q[r].emb).found
        /\ q[r].fwd.sent
        /\ q[r].reqMessages # << >>

\* The bytes of the units, each followed by the delimiter.
RECURSIVE Framed(_)
Framed(units) ==
    IF units = << >> THEN << >> ELSE Head(units) \o Delimiter \o Framed(Tail(units))

Front(s) == SubSeq(s, 1, Len(s) - 1)

\* C9: during streaming the bytes written to the caller are a prefix of the
\* units read, each followed by the delimiter, in order; a unit and its
\* delimiter are written before the next unit is read; at the end of the
\* stream the caller has every unit with its delimiter; and after a failure
\* the caller still has every unit written before it.
C9_OutputIsFramedPrefix ==
    \A r \in Reqs :
        q[r].stream # "none" =>
            /\ IsPrefix(q[r].out, Framed(q[r].rd))
            /\ q[r].pc = "scan" => q[r].out = Framed(q[r].rd)
            /\ q[r].pc = "write" => q[r].out = Framed(Front(q[r].rd))
            /\ q[r].pc = "delim" => q[r].out = Framed(Front(q[r].rd)) \o q[r].buf
            /\ q[r].result = "ok" => q[r].out = Framed(q[r].rd)
            /\ (q[r].pc = "done" /\ q[r].rd # << >>) =>
                  IsPrefix(Framed(Front(q[r].rd)), q[r].out)

\* The stream ended normally after two different units were relayed.
C9_Witness ==
    \E r \in Reqs :
        /\ q[r].result = "ok"
        /\ Len(q[r].rd) = 2
        /\ q[r].rd[1] # q[r].rd[2]
        /\ q[r].out = q[r].rd[1] \o Delimiter \o q[r].rd[2] \o Delimiter

\* C10: a failed write to the caller is the request's last operation: no read
\* from the stream and no write follows it, and the request has ended with an
\* internal failure.
C10_WriteFailureEndsRequest ==
    \A r \in Reqs :
        \A k \in 1..Len(q[r].log) :
            q[r].log[k] = "writeFail" =>
                /\ k = Len(q[r].log)
                /\ q[r].pc = "done"
                /\ q[r].result = "internal"
                /\ q[r].err \in {"stream write", "delimiter write"}

\* The write of the second unit's delimiter failed.
C10_Witness ==
    \E r \in Reqs :
        /\ Has(q[r].log, "writeFail")
        /\ q[r].err = "delimiter write"
        /\ Len(q[r].rd) = 2


\* C11 (as claimed): a request that ends with an internal or downstream
\* failure is answered with status 500, also when the failure comes after
\* stream units were written to the caller.
C11_InternalFailureIs500 ==
    \A r \in Reqs :
        (q[r].pc = "done" /\ q[r].result = "internal") => q[r].status = 500

Rank(op) ==
    CASE op \in {"readBodyFail"} -> 0
      [] op = "verify" -> 1
      [] op = "parse" -> 2
      [] op = "ensure" -> 3
      [] op \in {"readdir", "readdirFail"} -> 4
      [] op \in {"generate", "generateFail"} -> 5
      [] op \in {"panic"} -> 6
      [] op = "embed" -> 7
      [] op = "select" -> 8
      [] op \in {"open", "openFail"} -> 9
      [] op \in {"readFile", "readFileFail"} -> 10
      [] op = "complete" -> 11
      [] OTHER -> 12

StreamOps == {"scan", "write", "writeFail"}

\* The operations that report a failure of their own.
FailOps == {"readBodyFail", "readdirFail", "generateFail", "panic", "openFail",
            "readFileFail", "writeFail"}

\* The operation that must have been done before an operation can be.
Needs(op) ==
    CASE op = "parse" -> "verify"
      [] op = "ensure" -> "parse"
      [] op \in {"readdir", "readdirFail"} -> "ensure"
      [] op \in {"generate", "generateFail"} -> "readdir"
      [] op \in {"embed", "complete", "panic"} -> "ensure"
      [] op = "select" -> "embed"
      [] op \in {"open", "openFail"} -> "select"
      [] op \in {"readFile", "readFileFail"} -> "open"
      [] op = "scan" -> "complete"
      [] op \in {"write", "writeFail"} -> "scan"
      [] OTHER -> op

\* C13 (as claimed): a request that has parsed its body has invoked the corpus
\* ensure-step before the parse.
C13_EnsureBeforeParse ==
    \A r \in Reqs :
        \A k \in 1..Len(q[r].log) :
            q[r].log[k] = "parse" => \E j \in 1..(k - 1) : q[r].log[j] = "ensure"

\* C13 (amended): the operations of a request come in the order verify,
\* parse, ensure, (build), embed, select, open, read, complete, stream; each
\* comes after the one it needs; an operation that failed is the last one;
\* a request that holds an error does nothing more; and a request whose body
\* json.Unmarshal rejects never invokes the ensure-step.
C13_StepsInCodeOrder ==
    \A r \in Reqs :
        LET log == q[r].log
            done == {log[k] : k \in 1..Len(log)}
        IN  /\ \A k \in 1..(Len(log) - 1) :
                  /\ Rank(log[k]) <= Rank(log[k + 1])
                  /\ Rank(log[k]) = Rank(log[k + 1]) => log[k] \in StreamOps
                  /\ log[k] \notin FailOps
                  /\ log[k + 1] \in {"write", "writeFail"} => log[k] \in {"scan", "write"}
            /\ \A op \in done : Needs(op) \in done
            /\ q[r].err # "nil" => q[r].pc \in {"errcheck", "done"}
            /\ (q[r].body # NoBody /\ Unmarshal(q[r].body).err # "nil") => "ensure" \notin done

\* A verified request with a body that is not JSON has ended with status 400
\* and no corpus build has been started.
C13_Witness ==
    \E r \in Reqs :
        /\ q[r].log = <<"verify", "parse">>
        /\ q[r].result = "badrequest"
        /\ builds = 0


\* The request is inside the function passed to datasetsInit.Do.
Building(r) == q[r].pc \in {"readdir", "generate"}

\* C14: a request returns from the ensure-step only when no build is running:
\* whoever has passed the ensure-step and is not the builder finds the build
\* finished, and the selector is never called while a build is in progress.
C14_NoReadDuringBuild ==
    \A r \in Reqs :
        /\ (Has(q[r].log, "ensure") /\ ~Building(r)) =>
              /\ once = "done"
              /\ \A o \in Reqs : ~Building(o)
        /\ Has(q[r].log, "select") => buildResult # "none"

\* A request is held at the ensure-step while another request generates the datasets.
C14_Witness ==
    \E r, o \in Reqs :
        /\ q[r].pc = "once"
        /\ q[o].pc = "generate"
        /\ once = "running"


\* The request's embedding call, selection or document load has failed.
RetrievalFailed(r) ==
    \/ q[r].err \in {"embedding", "best dataset", "open", "read"}
    \/ Has(q[r].log, "select") /\ FindBestDataset(datasets, q[r].emb).err # "nil"

\* C15: a request whose retrieval fails ends with an internal failure without
\* a completion call and with nothing written to its caller; and the step in
\* which it fails leaves Service.datasets, the gate and every other request
\* as they were.
C15_RetrievalFailureIsLocal ==
    /\ [](\A r \in Reqs :
            RetrievalFailed(r) =>
                /\ q[r].pc = "done"
                /\ q[r].result = "internal"
                /\ ~q[r].fwd.sent
                /\ q[r].stream = "none"
                /\ q[r].out = << >>)
    /\ [][\A r \in Reqs :
            (q[r].pc \in {"embed", "select", "open", "readfile"} /\ q'[r].pc = "done") =>
                /\ datasets' = datasets
                /\ once' = once
                /\ \A o \in Reqs \ {r} : q'[o] = q[o]]_vars

\* One request has failed in the selector and another has streamed a
\* completion for a conversation with an injected context.
C15_Witness ==
    \E r, o \in Reqs :
        /\ q[r].err = "best dataset"
        /\ q[o].result = "ok"
        /\ Len(q[o].fwd.Messages) = 2
        /\ q[o].out # << >>


\* The request is at its embedding call, its selection, its document load,
\* its completion call or its stream reads and writes.
InRequestSteps(r) ==
    q[r].pc \in {"embed", "select", "open", "readfile", "forward", "scan", "write", "delim"}

\* The next step of a request that is in its own steps.
RequestStep(r) ==
    \/ Embed(r, Vectors)
    \/ Select(r)
    \/ Open(r)
    \/ ReadFile(r)
    \/ Forward(r)
    \/ Scan(r, Units, MaxUnits)
    \/ WriteUnit(r)
    \/ WriteDelim(r)

\* C16: while a request is at its embedding call, document load, completion
\* call or stream reads and writes, the gate is not held, by it or by any
\* other request, and its next step can be taken whatever the other requests
\* are doing.
C16_NoGateHeldInRequestSteps ==
    \A r \in Reqs :
        InRequestSteps(r) =>
            /\ once = "done"
            /\ \A o \in Reqs : ~Building(o)
            /\ ENABLED RequestStep(r)

\* One request is writing a stream unit while another is at its embedding call.
C16_Witness ==
    \E r, o \in Reqs :
        /\ q[r].pc = "write"
        /\ q[o].pc = "embed"


\* Concurrent requests under fair scheduling: a request whose next step stays
\* possible takes it (every goroutine that can run is run, every external call
\* returns, the stream ends). Every request carries a passing signature and a
\* conversation of one user message, so that each of them reaches the gate.
StepFair(r) ==
    Step(r, {<<"S", "2", "1">>},
         {ObjectBody(<<[Role |-> "user", Content |-> <<"a">>]>>)},
         {<<1, 0>>}, {<<"x">>}, 1)

NextFair == \E r \in Reqs : StepFair(r)

SpecFair == Init /\ [][NextFair]_vars /\ \A r \in Reqs : WF_vars(StepFair(r))

\* C17: under fair scheduling every request ends, also one that reached the
\* gate while the build was running, whether the build succeeds or fails (a
\* request that has ended stays ended, so this is: eventually all have ended).
C17_EveryRequestTerminates ==
    <>(\A r \in Reqs : q[r].pc = "done")

\* Every request has ended after a failed build that one of them ran while
\* another passed the gate without building.
C17_Witness ==
    /\ \A r \in Reqs : q[r].pc = "done"
    /\ buildResult = "failed"
    /\ \E r, o \in Reqs :
          /\ Has(q[r].log, "readdirFail")
          /\ Has(q[o].log, "ensure")
          /\ ~Has(q[o].log, "readdir")
          /\ ~Has(q[o].log, "readdirFail")


\* C18: a stream the completion service returned is closed exactly once by
\* the time the request ends, on every exit path, and not before; where the
\* completion call failed or was not made, nothing is closed.
C18_StreamClosedOnce ==
    \A r \in Reqs :
        /\ q[r].closes <= 1
        /\ q[r].stream = "none" => q[r].closes = 0
        /\ q[r].stream = "open" => (q[r].closes = 0 /\ q[r].pc \in {"scan", "write", "delim"})
        /\ q[r].stream = "closed" => (q[r].closes = 1 /\ q[r].pc = "done")
        /\ (q[r].pc = "done" /\ Has(q[r].log, "scan")) => q[r].stream = "closed"
        /\ q[r].err = "completions" => q[r].stream = "none"

\* A request has ended on a read error of the stream after relaying a unit,
\* with its stream closed.
C18_Witness ==
    \E r \in Reqs :
        /\ q[r].err = "stream read"
        /\ Len(q[r].rd) = 1
        /\ q[r].closes = 1

\* C19 (as claimed): a request with a passing signature ends as a success, a
\* client-input failure or an internal failure, whatever its body.
C19_DefinedOutcome ==
    \A r \in Reqs :
        (q[r].pc = "done" /\ q[r].isValid) => q[r].result \in {"ok", "badrequest", "internal"}

\* C20 (as claimed): when no request is in flight no document handle is open.
C20_NoOpenHandlesAtRest ==
    (\A r \in Reqs : q[r].pc \in {"start", "done"}) => openFiles = 0

====
